---- MODULE Spec2Model ----
(***************************************************************************)
(* Two programs of the repository:                                         *)
(*   examples/test_cpp.cpp     Vector<int>: push with a doubling pass once  *)
(*                             the vector holds more than 10 elements      *)
(*   test_samples/sample.cpp   DataProcessor / AdvancedProcessor           *)
(* Each file has its own main(), so each is a program of its own: Spec is  *)
(* the Vector program, PipeSpec the processor program.                     *)
(***************************************************************************)
EXTENDS Integers, Sequences, FiniteSets

(* ------------------------------ bounds -------------------------------- *)

\* width of int in bits (two's complement)
IntWidth == 16
\* longest run of push calls explored
MaxPushes == 12
\* longest generated argument of process_data
MaxBatch == 2
\* most results a processor accumulates
MaxResults == 6
\* most process_data calls on an AdvancedProcessor
MaxCalls == 2

(* ---------------------------- int arithmetic -------------------------- *)

RECURSIVE Pow2(_)
Pow2(n) == IF n = 0 THEN 1 ELSE 2 * Pow2(n - 1)

MaxInt == Pow2(IntWidth - 1) - 1
MinInt == -Pow2(IntWidth - 1)

\* the value of a w-bit two's complement word holding x modulo 2^w
Wrap(x) ==
  LET m == x % Pow2(IntWidth)
  IN  IF m > MaxInt THEN m - Pow2(IntWidth) ELSE m

InRange(x) == MinInt <= x /\ x <= MaxInt

\* Signed overflow is undefined behaviour.  The builds differ in what it
\* does: "wrap" keeps the low bits of the product, "trap" ends the program
\* at the overflowing operation.
Builds == {"wrap", "trap"}

\* the smallest positive int whose double does not fit
BigVal == Pow2(IntWidth - 2)

(* ------------------------------ inputs -------------------------------- *)

\* arguments of push: negative, zero, small positive, and one whose double
\* overflows
PushValues == {-1, 0, 1, BigVal}

\* A run of the caller draws all its push arguments from two of PushValues;
\* every pair is explored.
Palettes == {P \in SUBSET PushValues : Cardinality(P) = 2}

\* elements of the arguments of process_data and process_item
ItemValues == {MinInt, -1, 1, BigVal}

\* std::vector<int> data = {1, 2, 3, 4, 5};  in main
MainBatch == <<1, 2, 3, 4, 5>>

Batches == UNION {[1..n -> ItemValues] : n \in 0..MaxBatch} \cup {MainBatch}

VARIABLES
  build,      \* the build's treatment of signed overflow
  aborted,    \* the program was ended by an overflow trap
  palette,    \* the two values this run's caller pushes
  data,       \* Vector::data
  pushed,     \* the arguments of the push calls so far, in call order
  passes,     \* how many times the body of `if (data.size() > 10)` was entered
  ret,        \* what the last Vector call returned
  kind,       \* dynamic type of the processor: "base" or "advanced"
  name,       \* DataProcessor::name
  pdata,      \* DataProcessor::data
  out,        \* number of lines written to std::cout by process_data
  last        \* the last processor call: its operation, its argument, the
              \* results before it, and its effects in program order

vecVars == <<palette, data, pushed, passes, ret>>
procVars == <<kind, name, pdata, out, last>>
vars == <<build, aborted, palette, data, pushed, passes, ret,
          kind, name, pdata, out, last>>

\* a call result: <<>> of a void function, <<n>> of one returning the int n
Void == <<>>
Returned(n) == <<n>>

(* ------------------------------ Vector -------------------------------- *)

Threshold == 10

ExceedsThresholdAt(n) == n >= Threshold
\* data.size() > 10
ExceedsThreshold(n) == n > Threshold

IsNonZero(elem) == elem # 0
\* elem > 0
IsPositive(elem) == elem > 0

PushFront(d, item) == <<item>> \o d
\* data.push_back(item)
PushBack(d, item) == Append(d, item)

\* for (auto& elem : data) if (elem > 0) elem *= 2;  from element i on.
\* The result is the vector and whether the program trapped on the way.
RECURSIVE ScaleFrom(_, _, _)
ScaleFrom(d, i, b) ==
  IF i > Len(d) THEN [data |-> d, aborted |-> FALSE]
  ELSE IF IsPositive(d[i])
       THEN IF InRange(2 * d[i])
            THEN ScaleFrom([d EXCEPT ![i] = 2 * d[i]], i + 1, b)
            ELSE IF b = "trap"
                 THEN [data |-> d, aborted |-> TRUE]
                 ELSE ScaleFrom([d EXCEPT ![i] = Wrap(2 * d[i])], i + 1, b)
       ELSE ScaleFrom(d, i + 1, b)

ScalePassSkipLast(d, b) ==
  LET r == ScaleFrom(SubSeq(d, 1, Len(d) - 1), 1, b)
  IN  [data |-> Append(r.data, d[Len(d)]), aborted |-> r.aborted]
\* the whole pass over data
ScalePass(d, b) == ScaleFrom(d, 1, b)

SizeLastIndex(d) == Wrap(Len(d) - 1)
\* return data.size();  converted from size_t to int
SizeOf(d) == Wrap(Len(d))

\* void push(const T& item)
push(item) ==
  /\ ~aborted
  /\ Len(pushed) < MaxPushes
  /\ LET d1 == PushBack(data, item)
         r  == IF ExceedsThreshold(Len(d1))
               THEN ScalePass(d1, build)
               ELSE [data |-> d1, aborted |-> FALSE]
     IN  /\ data' = r.data
         /\ aborted' = r.aborted
         /\ passes' = IF ExceedsThreshold(Len(d1)) THEN passes + 1 ELSE passes
  /\ pushed' = Append(pushed, item)
  /\ ret' = Void
  /\ UNCHANGED <<build, palette, procVars>>

\* virtual int size() const
size ==
  /\ ~aborted
  /\ ret' = Returned(SizeOf(data))
  /\ UNCHANGED <<build, aborted, palette, data, pushed, passes, procVars>>

(* --------------------- DataProcessor / AdvancedProcessor -------------- *)

NoCall == [op |-> "new", items |-> <<>>, before |-> <<>>, log |-> <<>>]

\* data.push_back(item * 2);  on the running outcome o = [data, log, aborted]
process_item_on(o, item, b) ==
  IF InRange(item * 2)
  THEN [data |-> Append(o.data, item * 2),
        log |-> Append(o.log, "append"), aborted |-> FALSE]
  ELSE IF b = "trap"
       THEN [data |-> o.data, log |-> o.log, aborted |-> TRUE]
       ELSE [data |-> Append(o.data, Wrap(item * 2)),
             log |-> Append(o.log, "append"), aborted |-> FALSE]

\* for (const auto& item : items) process_item(item);  from item i on
RECURSIVE ProcessFrom(_, _, _, _)
ProcessFrom(o, items, i, b) ==
  IF i > Len(items) \/ o.aborted THEN o
  ELSE ProcessFrom(process_item_on(o, items[i], b), items, i + 1, b)

\* DataProcessor::process_data(items), entered with the effects so far in o
BaseProcessData(o, items, b) == ProcessFrom(o, items, 1, b)

\* std::cout << "Advanced processing..." << std::endl;
Notify(o) == [o EXCEPT !.log = Append(@, "notify")]

AdvancedNotifyLast(o, items, b) == Notify(BaseProcessData(o, items, b))
\* AdvancedProcessor::process_data(items)
AdvancedProcessData(o, items, b) == BaseProcessData(Notify(o), items, b)

Entry(d) == [data |-> d, log |-> <<>>, aborted |-> FALSE]

NotifyCount(log) == Cardinality({i \in 1..Len(log) : log[i] = "notify"})

\* inline void process_item(int item), called from outside
process_item(item) ==
  /\ ~aborted
  /\ Len(pdata) < MaxResults
  /\ LET r == process_item_on(Entry(pdata), item, build)
     IN  /\ pdata' = r.data
         /\ aborted' = r.aborted
         /\ last' = [op |-> "process_item", items |-> <<item>>,
                     before |-> pdata, log |-> r.log]
  /\ UNCHANGED <<build, kind, name, out, vecVars>>

\* a call of process_data on an object whose dynamic type is DataProcessor
DataProcessor_process_data(items) ==
  /\ ~aborted
  /\ kind = "base"
  /\ Len(pdata) + Len(items) <= MaxResults
  /\ LET r == BaseProcessData(Entry(pdata), items, build)
     IN  /\ pdata' = r.data
         /\ aborted' = r.aborted
         /\ out' = out + NotifyCount(r.log)
         /\ last' = [op |-> "process_data", items |-> items,
                     before |-> pdata, log |-> r.log]
  /\ UNCHANGED <<build, kind, name, vecVars>>

\* a call of process_data on an object whose dynamic type is
\* AdvancedProcessor, through a reference of either static type
AdvancedProcessor_process_data(items) ==
  /\ ~aborted
  /\ kind = "advanced"
  /\ out < MaxCalls
  /\ Len(pdata) + Len(items) <= MaxResults
  /\ LET r == AdvancedProcessData(Entry(pdata), items, build)
     IN  /\ pdata' = r.data
         /\ aborted' = r.aborted
         /\ out' = out + NotifyCount(r.log)
         /\ last' = [op |-> "process_data", items |-> items,
                     before |-> pdata, log |-> r.log]
  /\ UNCHANGED <<build, kind, name, vecVars>>

(* --------------------------- specifications --------------------------- *)

\* Vector() {}
VectorInit ==
  /\ palette \in Palettes
  /\ data = <<>>
  /\ pushed = <<>>
  /\ passes = 0
  /\ ret = Void

\* DataProcessor::create_default()  or  AdvancedProcessor()
ProcessorInit ==
  /\ kind \in {"base", "advanced"}
  /\ name = (IF kind = "base" THEN "default" ELSE "advanced")
  /\ pdata = <<>>
  /\ out = 0
  /\ last = NoCall

\* the Vector program; the processor is constructed and never called
Init ==
  /\ build \in Builds
  /\ aborted = FALSE
  /\ VectorInit
  /\ ProcessorInit /\ kind = "base"

Next ==
  \/ \E item \in palette : push(item)
  \/ size

Spec == Init /\ [][Next]_vars

\* the processor program; the Vector is constructed and never called
PipeInit ==
  /\ build \in Builds
  /\ aborted = FALSE
  /\ VectorInit /\ palette = {-1, 1}
  /\ ProcessorInit

PipeNext ==
  \/ \E item \in ItemValues : process_item(item)
  \/ \E items \in Batches : DataProcessor_process_data(items)
  \/ \E items \in Batches : AdvancedProcessor_process_data(items)

PipeSpec == PipeInit /\ [][PipeNext]_vars

(* ------------------------- properties: Vector ------------------------- *)

AllOnes(n) == [i \in 1..n |-> 1]

\* how often the element pushed at position k has been scanned by a pass
\* once n pushes were made
Scans(k, n) == IF k <= Threshold THEN n - Threshold ELSE n - k + 1

\* C1 as stated: after twelve pushes of 1 every element equals 4.
C1_AllFourAfterTwelve ==
  pushed = AllOnes(Threshold + 2) =>
    \A i \in 1..Len(data) : data[i] = 4

\* C1 amended: after twelve pushes of 1 two passes have run, the first
\* eleven elements equal 4 and the twelfth, scanned once, equals 2.
C1_FirstElevenFourLastTwo ==
  pushed = AllOnes(Threshold + 2) =>
    /\ passes = 2
    /\ Len(data) = Threshold + 2
    /\ \A i \in 1..(Threshold + 1) : data[i] = 4
    /\ data[Threshold + 2] = 2

C1_Witness ==
  /\ pushed = AllOnes(Threshold + 2)
  /\ data[1] = 4
  /\ data[Threshold + 2] = 2

\* C2: while at most 10 pushes were made no pass has run, data holds the
\* pushed values in call order, and size() returns the number of pushes.
C2_GrowthBeforeThreshold ==
  Len(pushed) <= Threshold =>
    /\ passes = 0
    /\ data = pushed
    /\ (ret # Void => ret = Returned(Len(pushed)))

C2_Witness ==
  /\ Len(pushed) = Threshold
  /\ ret = Returned(Threshold)
  /\ data = pushed
  /\ \E i \in 1..Len(pushed) : pushed[i] > 0
  /\ \E i \in 1..Len(pushed) : pushed[i] <= 0

C4_NonPositiveUntouched ==
  [][\A i \in 1..Len(data') :
       LET before == IF i <= Len(data) THEN data[i] ELSE pushed'[i]
       IN  before <= 0 => data'[i] = before]_vars

C4_Witness ==
  /\ passes >= 2
  /\ \E i \in 1..Len(pushed) : pushed[i] < 0 /\ data[i] = pushed[i]
  /\ \E j \in 1..Len(pushed) : pushed[j] > 0 /\ data[j] = 4 * pushed[j]

\* C7: data always has one element per push made; a push adds exactly one
\* element and leaves each earlier element in its place, unchanged or doubled;
\* size() returns the number of pushes and changes nothing of the container.
C7_SizeCountsPushes ==
  [][/\ Len(data') = Len(pushed')
     /\ (pushed' # pushed =>
           /\ Len(data') = Len(data) + 1
           /\ \A i \in 1..Len(data) :
                data'[i] \in {data[i], 2 * data[i], Wrap(2 * data[i])})
     /\ (ret' # Void =>
           /\ ret' = Returned(Len(pushed'))
           /\ data' = data
           /\ pushed' = pushed
           /\ passes' = passes)]_vars

C7_Witness ==
  /\ Len(pushed) = Threshold + 2
  /\ ret = Returned(Threshold + 2)
  /\ passes = 2

\* C9: once n >= 11 pushes were made, n - 10 passes have run, and unless the
\* program overflowed, a positive value v pushed at position k is stored as
\* v * 2^(n-10) for k <= 10 and as v * 2^(n-k+1) for k >= 11.
C9_CompoundingByPosition ==
  Len(pushed) > Threshold =>
    /\ passes = Len(pushed) - Threshold
    /\ \A k \in 1..Len(pushed) :
         LET v == pushed[k] * Pow2(Scans(k, Len(pushed)))
         IN  (pushed[k] > 0 /\ InRange(v) /\ ~aborted) =>
               /\ data[k] = v
               /\ data[k] # pushed[k]

C9_Witness ==
  /\ pushed = AllOnes(Threshold + 2)
  /\ data[Threshold] = 4
  /\ data[Threshold + 1] = 4
  /\ data[Threshold + 2] = 2
  /\ ~aborted

\* C10 as stated: an element pushed with a value > 0 is > 0 in every later
\* state, and no push fails.
C10_PositiveStaysPositive ==
  /\ ~aborted
  /\ \A k \in 1..Len(pushed) : pushed[k] > 0 => data[k] > 0

(* ----------------------- properties: processors ----------------------- *)

Twice(items) == [i \in 1..Len(items) |-> 2 * items[i]]

\* C5 as stated: after process_data(items) on a DataProcessor the results
\* are the previous results followed by 2*x for each x of items, in order.
C5_BatchAppendsDoubles ==
  (last.op = "process_data" /\ kind = "base") =>
    /\ ~aborted
    /\ pdata = last.before \o Twice(last.items)

\* C6: after process_data(items) on an AdvancedProcessor exactly one line was
\* written, it was written before anything was appended, and the results
\* (and whether the program still runs) are those of
\* DataProcessor::process_data on the same previous results and items.
C6_AdvancedDelegates ==
  (last.op = "process_data" /\ kind = "advanced") =>
    LET base == BaseProcessData(Entry(last.before), last.items, build)
    IN  /\ NotifyCount(last.log) = 1
        /\ last.log = <<"notify">> \o base.log
        /\ pdata = base.data
        /\ aborted = base.aborted

C6_Witness ==
  /\ kind = "advanced"
  /\ last.op = "process_data"
  /\ last.items = MainBatch
  /\ Len(last.before) = 1
  /\ pdata = last.before \o <<2, 4, 6, 8, 10>>
  /\ last.log = <<"notify", "append", "append", "append", "append", "append">>
  /\ out = 1

\* C8 as stated: process_item(item) appends exactly 2*item, for every int.
C8_ItemExactlyDoubled ==
  last.op = "process_item" =>
    /\ ~aborted
    /\ pdata = Append(last.before, 2 * last.items[1])

====
